---- MODULE Spec2Model ----
(***************************************************************************)
(* Model of jpdb-connect's src/jpdb.rs: the card workflow                  *)
(* JPDBConnection::add_note with the VocabCard steps it calls, the request *)
(* dispatch (send_request, get_request, form_request) and the governed     *)
(* service Buffer<ConcurrencyLimit<RateLimit<ReqwestService>>>.            *)
(*                                                                         *)
(* Strings are sequences of tokens; a token is a run of characters that    *)
(* every encoder leaves alone ("vocabulary", "1") or one character that    *)
(* some encoder rewrites ("/", " ", a kanji, written by its code point    *)
(* "U+732B").  format! is concatenation.                                   *)
(***************************************************************************)
EXTENDS Integers, Sequences, FiniteSets, TLC

\* ------------------------------------------------------------------ bounds

\* number of deck ids Config.auto_add is drawn from
NumDecks == 1

\* number of words a card is drawn from
NumWords == 1

\* ------------------------------------------------------------------ strings

URL_PREFIX == <<"https://">>

\* DOMAIN is a reserved word of TLA+
JPDB_DOMAIN == <<"jpdb.io">>

\* Option<T>: None is the empty sequence, Some(x) the one-element sequence.
None == <<>>

Some(x) == <<x>>

IsSome(o) == Len(o) = 1

Unwrap(o) == o[1]

\* the strings in ss with sep between them
RECURSIVE Join(_, _)
Join(ss, sep) ==
    IF ss = <<>> THEN <<>>
    ELSE IF Len(ss) = 1 THEN Head(ss)
    ELSE Head(ss) \o sep \o Join(Tail(ss), sep)

DigitChar(d) ==
    CASE d = 0 -> "0" [] d = 1 -> "1" [] d = 2 -> "2" [] d = 3 -> "3"
      [] d = 4 -> "4" [] d = 5 -> "5" [] d = 6 -> "6" [] d = 7 -> "7"
      [] d = 8 -> "8" [] d = 9 -> "9"

\* Display of a u64 inside format!: its decimal digits
RECURSIVE ToDec(_)
ToDec(n) ==
    IF n < 10 THEN <<DigitChar(n)>>
    ELSE ToDec(n \div 10) \o <<DigitChar(n % 10)>>

abs_url(rel) == URL_PREFIX \o JPDB_DOMAIN \o rel

\* reqwest::Url::parse on a string that starts with the fixed origin: it
\* succeeds and percent-encodes what a URL cannot carry literally.
UrlToken(t) ==
    CASE t = "U+732B" -> "%E7%8C%AB"
      [] t = "U+72AC" -> "%E7%8A%AC"
      [] t = " " -> "%20"
      [] OTHER -> t

UrlParse(s) == [i \in DOMAIN s |-> UrlToken(s[i])]

\* serde_urlencoded: a byte outside [A-Za-z0-9*-._] becomes %XX, a space "+"
FormToken(t) ==
    CASE t = "U+732B" -> "%E7%8C%AB"
      [] t = "U+72AC" -> "%E7%8A%AC"
      [] t = " " -> "+"
      [] t = "/" -> "%2F"
      [] t = "?" -> "%3F"
      [] t = "=" -> "%3D"
      [] t = "&" -> "%26"
      [] OTHER -> t

FormEscape(s) == [i \in DOMAIN s |-> FormToken(s[i])]

FormPair(p) == FormEscape(p[1]) \o <<"=">> \o FormEscape(p[2])

\* serde_urlencoded::ser::to_string on an array of (key, value) pairs
FormEncode(payload) ==
    Join([i \in DOMAIN payload |-> FormPair(payload[i])], <<"&">>)

\* ------------------------------------------------------------------ data

\* Config.auto_add: Option<u64>, the target deck
DeckIds == {5 * k : k \in 1..NumDecks}

WordIds == 1..NumWords

\* anki_connect::Fields.word of the i-th card
WordOf(i) == IF i = 1 THEN <<"U+732B">> ELSE <<"word">> \o ToDec(i)

\* what the site holds for the i-th word: its detail page's relative URL
\* and the VocabId {v, s, r} embedded in that page
DetailRelOf(i) == <<"/", "vocabulary", "/">> \o ToDec(i) \o <<"/">> \o WordOf(i)

VocabIdOf(i) == [v |-> ToDec(3 * i - 2), s |-> ToDec(3 * i - 1), r |-> ToDec(3 * i)]

Sentences == {<<>>, <<"U+732B", " ", "da">>}

Definitions == {None, Some(<<>>), Some(<<"cat", "/", "feline">>)}

Fields ==
    [wid : WordIds, reading : {Some(<<"neko">>)}, sentence : Sentences,
     definition : Definitions]

Word(f) == WordOf(f.wid)

\* Config: session_id is Some exactly when the flag is TRUE
Configs ==
    [session_id : BOOLEAN, auto_add : {None} \cup {Some(d) : d \in DeckIds},
     auto_unlock : BOOLEAN, auto_forq : BOOLEAN, auto_forget : BOOLEAN,
     add_mined_sentences : BOOLEAN, add_custom_definition : BOOLEAN,
     auto_open : BOOLEAN]

\* Config::any_login_or_detail_options: some option that needs the detail
\* page is enabled
any_login_or_detail_options(c) ==
    \/ IsSome(c.auto_add)
    \/ c.auto_unlock
    \/ c.auto_forq
    \/ c.auto_forget
    \/ c.add_mined_sentences
    \/ c.add_custom_definition

\* A page body, as far as the parsing module reads it: the detail link a
\* search page carries and the VocabId a detail page carries.
SearchPages(f) ==
    {[detail |-> None, vid |-> None],
     [detail |-> Some(DetailRelOf(f.wid)), vid |-> None]}

DetailPages(f) ==
    {[detail |-> None, vid |-> None],
     [detail |-> None, vid |-> Some(VocabIdOf(f.wid))]}

\* parsing::find_detail_url(body, word, reading): Ok(rel) or Err
find_detail_url(body, word, reading) == body.detail

\* parsing::find_vocab_id(body): Option<VocabId>
find_vocab_id(body) == body.vid

\* What awaiting ReqwestService::call, then Response::text, can give:
\* a transport error, or a response with any status whose body is read
\* (text = Some(page)) or fails to be read (text = None).
GetStatuses == {200, 404}

PostStatuses == {200, 302, 404}

\* the reqwest::Error of a failed call, with what Display gives for it
ReqwestError == [type |-> "reqwest::Error", display |-> "error sending request"]

TransportError == [ok |-> FALSE, status |-> 0, text |-> None, err |-> Some(ReqwestError)]

Responses(statuses, pages) ==
    [ok : {TRUE}, status : statuses, text : {None} \cup {Some(p) : p \in pages},
     err : {None}]

\* line 53, map_err(|e| anyhow!("{e}")): a response is passed on, an error
\* becomes an anyhow::Error made of its Display text
map_err(o) ==
    IF o.ok THEN o
    ELSE [o EXCEPT !.err = Some([type |-> "anyhow::Error",
                                 display |-> Unwrap(o.err).display])]

\* what send_request returns
Outcomes(statuses, pages) ==
    {map_err(o) : o \in {TransportError} \cup Responses(statuses, pages)}

\* http::StatusCode::is_success and is_redirection
is_success(status) == 200 <= status /\ status <= 299

is_redirection(status) == 300 <= status /\ status <= 399

\* Result<T>: Ok(value) or Err(message)
Ok(x) == [ok |-> TRUE, val |-> x]

Err(e) == [ok |-> FALSE, val |-> <<e>>]

GET(url) == [method |-> "GET", url |-> UrlParse(url), body |-> None]

POST(url, payload) ==
    [method |-> "POST", url |-> UrlParse(url), body |-> Some(FormEncode(payload))]

\* line 92: the search URL of a word
search_url(word) ==
    <<"https://jpdb.io/search?q=">> \o word \o <<"&lang=english#a">>

\* ------------------------------------------------------------------ VocabCard

\* find_id as it would be with unwrap_or_default in place of `?`: a page
\* without an id gives an empty VocabId
find_id_or_default(card) ==
    IF IsSome(find_vocab_id(card.body)) THEN find_vocab_id(card.body)
    ELSE Some([v |-> <<>>, s |-> <<>>, r |-> <<>>])

\* VocabCard::find_id: the VocabId of the card's page, or None for
\* Err("can't find vocab id")
find_id(card) == find_vocab_id(card.body)

\* add_to_deck as it would be with the payload in the order v, s, r of
\* the other requests and of VocabId's fields
add_to_deck_vsr(vocab_id, deck_id, origin) ==
    POST(abs_url(<<"/", "deck", "/">> \o ToDec(deck_id) \o <<"/", "add">>),
         << <<<<"v">>, vocab_id.v>>, <<<<"s">>, vocab_id.s>>,
            <<<<"r">>, vocab_id.r>>, <<<<"origin">>, origin>> >>)

\* VocabCard::add_to_deck, its request
add_to_deck(vocab_id, deck_id, origin) ==
    POST(abs_url(<<"/", "deck", "/">> \o ToDec(deck_id) \o <<"/", "add">>),
         << <<<<"v">>, vocab_id.v>>, <<<<"r">>, vocab_id.r>>,
            <<<<"s">>, vocab_id.s>>, <<<<"origin">>, origin>> >>)

\* VocabCard::force_unlock, its request
force_unlock(vocab_id, origin) ==
    POST(abs_url(<<"/", "force-unlock">>),
         << <<<<"v">>, vocab_id.v>>, <<<<"s">>, vocab_id.s>>,
            <<<<"origin">>, origin>> >>)

\* VocabCard::forq, its request
forq(vocab_id, origin) ==
    POST(abs_url(<<"/", "prioritize">>),
         << <<<<"v">>, vocab_id.v>>, <<<<"s">>, vocab_id.s>>,
            <<<<"origin">>, origin>> >>)

\* VocabCard::mark_unknown, its request
mark_unknown(vocab_id, origin) ==
    POST(abs_url(<<"/", "mark-as-not-known">>),
         << <<<<"v">>, vocab_id.v>>, <<<<"s">>, vocab_id.s>>,
            <<<<"origin">>, origin>> >>)

\* the query ?v={}&s={}&r={} of the two edit endpoints
vsr_query(vocab_id) ==
    <<"?", "v", "=">> \o vocab_id.v \o <<"&", "s", "=">> \o vocab_id.s
        \o <<"&", "r", "=">> \o vocab_id.r

\* VocabCard::set_custom_sentence, its request
set_custom_sentence(vocab_id, sentence) ==
    POST(abs_url(<<"/", "edit-shown-sentence">> \o vsr_query(vocab_id)),
         << <<<<"sentence">>, sentence>>, <<<<"translation">>, <<>>>> >>)

\* VocabCard::set_custom_definition, its request
set_custom_definition(vocab_id, definition) ==
    POST(abs_url(<<"/", "edit_shown_meanings">> \o vsr_query(vocab_id)),
         << <<<<"language-select">>, <<"default">>>>,
            <<<<"language-english">>, <<"1">>>>,
            <<<<"language-japanese">>, <<"1">>>>,
            <<<<"language-german">>, <<"1">>>>,
            <<<<"language-spanish">>, <<"1">>>>,
            <<<<"language-french">>, <<"1">>>>,
            <<<<"language-hungarian">>, <<"1">>>>,
            <<<<"custom-definition">>, definition>> >>)

\* the dependent steps as they would be with forq run before force_unlock
DepSteps_forq_first ==
    <<"add_to_deck", "forq", "force_unlock", "mark_unknown",
      "set_custom_sentence", "set_custom_definition">>

\* the dependent steps, in the order add_note runs them
DepSteps ==
    <<"add_to_deck", "force_unlock", "forq", "mark_unknown",
      "set_custom_sentence", "set_custom_definition">>

DepStepSet == {DepSteps[i] : i \in DOMAIN DepSteps}

StepIndex(step) == CHOOSE i \in DOMAIN DepSteps : DepSteps[i] = step

\* the statement of add_note that follows a dependent step
StepAfter(step) ==
    IF StepIndex(step) = Len(DepSteps) THEN "open"
    ELSE DepSteps[StepIndex(step) + 1]

\* the condition add_note puts on calling a step (lines 119, 125, 129, 134,
\* 138, 144-145)
StepEnabled(c, f, step) ==
    CASE step = "add_to_deck" -> IsSome(c.auto_add)
      [] step = "force_unlock" -> c.auto_unlock
      [] step = "forq" -> c.auto_forq
      [] step = "mark_unknown" -> c.auto_forget
      [] step = "set_custom_sentence" -> c.add_mined_sentences
      [] step = "set_custom_definition" ->
            c.add_custom_definition /\ IsSome(f.definition)

\* the steps as they would be without their tests of an empty text
StepEarlyOk_never(f, step) == FALSE

\* the early `return Ok(())` of set_custom_sentence and
\* set_custom_definition, taken before find_id
StepEarlyOk(f, step) ==
    CASE step = "set_custom_sentence" -> Len(f.sentence) < 1
      [] step = "set_custom_definition" -> Len(Unwrap(f.definition)) < 1
      [] OTHER -> FALSE

\* the request a step sends once it has the VocabId
StepRequest(c, f, step, vocab_id, origin) ==
    CASE step = "add_to_deck" -> add_to_deck(vocab_id, Unwrap(c.auto_add), origin)
      [] step = "force_unlock" -> force_unlock(vocab_id, origin)
      [] step = "forq" -> forq(vocab_id, origin)
      [] step = "mark_unknown" -> mark_unknown(vocab_id, origin)
      [] step = "set_custom_sentence" -> set_custom_sentence(vocab_id, f.sentence)
      [] step = "set_custom_definition" ->
            set_custom_definition(vocab_id, Unwrap(f.definition))

\* the .context(...) a step puts on a transport error
StepContext(step) ==
    CASE step = "add_to_deck" -> "add to deck"
      [] step = "force_unlock" -> "force-unlock request"
      [] step = "forq" -> "forq request"
      [] step = "mark_unknown" -> "force-unlock request"
      [] step = "set_custom_sentence" -> "set custom sentence request"
      [] step = "set_custom_definition" -> "set custom definition request"

\* the error a step makes of a status it does not accept
StepStatusError(step) ==
    CASE step = "add_to_deck" -> "Add to deck failed, status"
      [] step = "force_unlock" -> "force unlock failed, status"
      [] step = "forq" -> "FORQ failed, status"
      [] step = "mark_unknown" -> "mark unknown failed, status"
      [] step = "set_custom_sentence" -> "Adding custom sentence failed, status"
      [] step = "set_custom_definition" -> "Adding custom definition failed, status"

\* the status a step accepts: add_to_deck tests is_success alone, the other
\* five is_success or is_redirection
StepStatusOk(step, status) ==
    IF step = "add_to_deck" THEN is_success(status)
    ELSE is_success(status) \/ is_redirection(status)

\* what a step returns for the outcome of its request: "Ok" or its error
StepResult(step, o) ==
    IF ~o.ok THEN StepContext(step)
    ELSE IF ~StepStatusOk(step, o.status) THEN StepStatusError(step)
    ELSE "Ok"

\* ------------------------------------------------------------------ add_note

VARIABLES
    config,      \* JPDBConnection.config
    fields,      \* the anki_connect::Fields add_note was called with
    pc,          \* the statement of add_note the run is at
    phase,       \* of the run's send_request: "idle", "queued" (handed to the
                 \* Buffer), "sent" (ReqwestService::call made, response awaited)
    requests,    \* the requests send_request was called with, in order
    calls,       \* the requests ReqwestService::call was made with, in order
    responses,   \* what each awaited call gave, in order
    detail_url,  \* add_note's detail_url: Some(rel) for Ok(rel), None for Err
    open_url,    \* add_note's open_url
    vocab,       \* add_note's VocabCard {body}, None before the detail page
    ret,         \* what each VocabCard step returned: "NotCalled", "Ok" or its error
    result,      \* what add_note returned: None while it runs
    opened,      \* the URLs open::that was called with, in order
    open_res     \* what each call of open::that returned: "Ok" or "Err"

wfvars ==
    <<config, fields, pc, phase, requests, calls, responses, detail_url,
      open_url, vocab, ret, result, opened, open_res>>

WfInit ==
    /\ config \in Configs
    /\ fields \in Fields
    /\ pc = "search"
    /\ phase = "idle"
    /\ requests = <<>>
    /\ calls = <<>>
    /\ responses = <<>>
    /\ detail_url = None
    /\ open_url = <<>>
    /\ vocab = None
    /\ ret = [step \in DepStepSet |-> "NotCalled"]
    /\ result = None
    /\ opened = <<>>
    /\ open_res = <<>>

\* send_request up to its await: the request is handed to the Buffer
submit(req) ==
    /\ phase = "idle"
    /\ requests' = Append(requests, req)
    /\ phase' = "queued"

\* send_request after its await: the caller has the outcome of the call
receive(o) ==
    /\ phase = "sent"
    /\ responses' = Append(responses, o)
    /\ phase' = "idle"

\* a failure as it would be if add_note went on to open::that with it
fail_go_on(e) ==
    /\ result' = Some(Err(e))
    /\ pc' = "open"

\* a failure as it would be if add_note swallowed it and returned open_url
fail_unreported(e) ==
    /\ result' = Some(Ok(open_url))
    /\ pc' = "done"

\* `return Err(..)` and every `?` of add_note that is given an Err
fail(e) ==
    /\ result' = Some(Err(e))
    /\ pc' = "done"

\* the steps as they would be with their errors logged and not returned:
\* add_note goes on to the next statement whatever the step gave
try_logged(step, r) ==
    /\ ret' = [ret EXCEPT ![step] = r]
    /\ pc' = StepAfter(step)
    /\ UNCHANGED result

\* `step(..).await?` of lines 121-149: Ok goes on to the next statement,
\* Err is returned from add_note
try(step, r) ==
    /\ ret' = [ret EXCEPT ![step] = r]
    /\ IF r = "Ok"
       THEN pc' = StepAfter(step) /\ UNCHANGED result
       ELSE fail(r)

\* open_url as it would be with the relative URL left as it is
resolve_open_url_relative(d, url) ==
    IF IsSome(d) THEN Unwrap(d) ELSE url

\* lines 102-107: the URL add_note opens and returns
resolve_open_url(d, url) ==
    IF IsSome(d) THEN URL_PREFIX \o JPDB_DOMAIN \o Unwrap(d) ELSE url

\* branch without the test of line 153: a card without detail page is an
\* error whatever the options
branch_always_err(c, d) ==
    IF c.session_id
    THEN IF IsSome(d) THEN "detail" ELSE "Err"
    ELSE "open"

\* branch without the return of line 155
branch_never_err(c, d) ==
    IF c.session_id /\ IsSome(d) THEN "detail" ELSE "open"

\* add_note's branch as it would be without the test of session_id
branch_session_blind(c, d) ==
    IF IsSome(d) THEN "detail"
    ELSE IF any_login_or_detail_options(c) THEN "Err" ELSE "open"

\* lines 109-110 and 152-158: where add_note goes once the search page is
\* parsed: "detail" (line 112), "open" (line 160) or "Err" (line 155)
branch(c, d) ==
    IF c.session_id
    THEN IF IsSome(d) THEN "detail"
         ELSE IF any_login_or_detail_options(c) THEN "Err" ELSE "open"
    ELSE "open"

\* lines 92-95: the search request
add_note_search ==
    /\ pc = "search"
    /\ submit(GET(search_url(Word(fields))))
    /\ UNCHANGED <<config, fields, pc, calls, responses, detail_url, open_url,
                   vocab, ret, result, opened, open_res>>

\* the worker as it would be if it could pass a queued request to
\* ReqwestService::call again
worker_call_again ==
    /\ phase = "queued"
    /\ calls' = Append(calls, requests[Len(requests)])
    /\ phase' \in {"queued", "sent"}
    /\ UNCHANGED <<config, fields, pc, requests, responses, detail_url,
                   open_url, vocab, ret, result, opened, open_res>>

\* the Buffer's worker: the service is ready and the queued request is
\* passed to ReqwestService::call.  How long the limiters hold a request is
\* the governor's part (below); here it is any delay.
worker_call ==
    /\ phase = "queued"
    /\ calls' = Append(calls, requests[Len(requests)])
    /\ phase' = "sent"
    /\ UNCHANGED <<config, fields, pc, requests, responses, detail_url,
                   open_url, vocab, ret, result, opened, open_res>>

\* lines 95-110, 152-158: the search response
add_note_search_done(o) ==
    /\ pc = "search"
    /\ receive(o)
    /\ IF ~o.ok
       THEN fail("search request") /\ UNCHANGED <<detail_url, open_url>>
       ELSE IF o.text = None
       THEN fail("error decoding response body") /\ UNCHANGED <<detail_url, open_url>>
       ELSE LET d == find_detail_url(Unwrap(o.text), Word(fields), fields.reading)
            IN /\ detail_url' = d
               /\ open_url' = resolve_open_url(d, search_url(Word(fields)))
               /\ IF branch(config, d) = "Err"
                  THEN fail("can't find card")
                  ELSE pc' = branch(config, d) /\ UNCHANGED result
    /\ UNCHANGED <<config, fields, requests, calls, vocab, ret, opened,
                   open_res>>

\* line 112 with get_request: the detail page request
add_note_detail ==
    /\ pc = "detail"
    /\ submit(GET(abs_url(Unwrap(detail_url))))
    /\ UNCHANGED <<config, fields, pc, calls, responses, detail_url, open_url,
                   vocab, ret, result, opened, open_res>>

\* lines 112-118: the detail page response
add_note_detail_done(o) ==
    /\ pc = "detail"
    /\ receive(o)
    /\ IF ~o.ok
       THEN fail("get detail page") /\ UNCHANGED vocab
       ELSE IF o.text = None
       THEN fail("error decoding response body") /\ UNCHANGED vocab
       ELSE /\ vocab' = Some([body |-> Unwrap(o.text)])
            /\ pc' = "add_to_deck"
            /\ UNCHANGED result
    /\ UNCHANGED <<config, fields, requests, calls, detail_url, open_url, ret,
                   opened, open_res>>

\* a step whose condition in add_note is false is passed over
step_skip(step) ==
    /\ pc = step
    /\ phase = "idle"
    /\ ~StepEnabled(config, fields, step)
    /\ pc' = StepAfter(step)
    /\ UNCHANGED <<config, fields, phase, requests, calls, responses,
                   detail_url, open_url, vocab, ret, result, opened, open_res>>

\* a step is called: its code up to the await of form_request
step_call(step) ==
    /\ pc = step
    /\ phase = "idle"
    /\ StepEnabled(config, fields, step)
    /\ IF StepEarlyOk(fields, step)
       THEN try(step, "Ok") /\ UNCHANGED <<phase, requests>>
       ELSE IF ~IsSome(find_id(Unwrap(vocab)))
       THEN try(step, "can't find vocab id") /\ UNCHANGED <<phase, requests>>
       ELSE /\ submit(StepRequest(config, fields, step,
                                  Unwrap(find_id(Unwrap(vocab))),
                                  Unwrap(detail_url)))
            /\ UNCHANGED <<pc, ret, result>>
    /\ UNCHANGED <<config, fields, calls, responses, detail_url, open_url,
                   vocab, opened, open_res>>

\* a step's code after the await of form_request, and the `?` on its result
step_done(step, o) ==
    /\ pc = step
    /\ receive(o)
    /\ try(step, StepResult(step, o))
    /\ UNCHANGED <<config, fields, requests, calls, detail_url, open_url,
                   vocab, opened, open_res>>

\* lines 160-164 as they would be with the result of open::that dropped
add_note_open_unchecked(open_ok) ==
    /\ pc = "open"
    /\ pc' = "done"
    /\ IF config.auto_open
       THEN /\ opened' = Append(opened, open_url)
            /\ open_res' = Append(open_res, IF open_ok THEN "Ok" ELSE "Err")
       ELSE /\ open_ok
            /\ UNCHANGED <<opened, open_res>>
    /\ result' = Some(Ok(open_url))
    /\ UNCHANGED <<config, fields, phase, requests, calls, responses,
                   detail_url, open_url, vocab, ret>>

\* lines 160-164: open::that, if configured, and the return
add_note_open(open_ok) ==
    /\ pc = "open"
    /\ pc' = "done"
    /\ IF config.auto_open
       THEN /\ opened' = Append(opened, open_url)
            /\ open_res' = Append(open_res, IF open_ok THEN "Ok" ELSE "Err")
            /\ result' = Some(IF open_ok THEN Ok(open_url) ELSE Err("open::that"))
       ELSE /\ open_ok
            /\ result' = Some(Ok(open_url))
            /\ UNCHANGED <<opened, open_res>>
    /\ UNCHANGED <<config, fields, phase, requests, calls, responses,
                   detail_url, open_url, vocab, ret>>

\* ------------------------------------------------------------------ governor
\* BufferedService = Buffer<ConcurrencyLimit<RateLimit<ReqwestService>>, Request>
\* (line 24), with N requests sent through send_request.  Time is counted
\* in ticks; the limiters' deadlines are kept as the ticks left until them.

\* N: the requests sent through the service
NumReq == 3

\* C: the permits of the ConcurrencyLimit
ConcurrencyBound == 2

\* R and the window: the Rate of the RateLimit, `RateNum` calls per
\* `RatePer` ticks
RateNum == 2

RatePer == 2

\* the bound of the Buffer: the messages it holds
BufferBound == 2

\* the clock stops counting here
MaxTime == 5

ReqIds == 1..NumReq

VARIABLES
    g_now,       \* ticks since the service was built, up to MaxTime
    g_req,       \* each request's place in send_request: "new" (not sent),
                 \* "ready" (awaiting service.ready()), "queued" (called, in
                 \* the Buffer), "inflight" (ReqwestService::call made), "done"
    g_late,      \* some request entered send_request after tick 0
    g_queue,     \* the Buffer's channel: the messages the worker has not taken
    g_current,   \* the message the worker holds: None or Some(id)
    g_permit,    \* the ConcurrencyLimit holds a permit for its next call
    g_rate,      \* the RateLimit's state: limited (State::Limited) or not
                 \* (State::Ready {until, rem}); left = ticks until `until`
    g_calls,     \* how often ReqwestService::call was made with each request
    g_out,       \* what the transport gave for each request: None before
    g_got,       \* what send_request returned for each request: None before
    g_window     \* the window of RatePer ticks opened by the first call made
                 \* outside an open window: ticks left, and calls made in it

govvars ==
    <<g_now, g_req, g_late, g_queue, g_current, g_permit, g_rate, g_calls,
      g_out, g_got, g_window>>

\* the state of NumRuns concurrent calls of add_note on one connection
\* (their actions are below, after the governor)
NumRuns == 2

Runs == 1..NumRuns

VARIABLES
    runs,        \* per call of add_note: its arguments, locals and position
    c_queue,     \* the Buffer's channel: [run, req] messages, in order
    c_calls      \* the calls of ReqwestService::call not yet completed

concvars == <<runs, c_queue, c_calls>>

vars == <<wfvars, govvars, concvars>>

\* the service as ServiceBuilder leaves it: RateLimit::new sets
\* State::Ready {until: now, rem: num}
GovFresh ==
    /\ g_now = 0
    /\ g_late = FALSE
    /\ g_queue = <<>>
    /\ g_current = None
    /\ g_permit = FALSE
    /\ g_rate = [limited |-> FALSE, left |-> 0, rem |-> RateNum]
    /\ g_calls = [i \in ReqIds |-> 0]
    /\ g_out = [i \in ReqIds |-> None]
    /\ g_got = [i \in ReqIds |-> None]
    /\ g_window = [left |-> 0, calls |-> 0]

GovInit ==
    /\ GovFresh
    /\ g_req = [i \in ReqIds |-> "new"]

InFlight == {i \in ReqIds : g_req[i] = "inflight"}

\* the free permits as they would be with a ConcurrencyLimit of one
free_permits_single == 1 - Cardinality(InFlight) - (IF g_permit THEN 1 ELSE 0)

\* the permits of the ConcurrencyLimit's semaphore that nobody holds
free_permits == ConcurrencyBound - Cardinality(InFlight) - (IF g_permit THEN 1 ELSE 0)

\* the messages that hold a permit of the Buffer's semaphore
buffered == Len(g_queue) + Len(g_current)

\* a caller enters send_request (line 45) and awaits service.ready()
gov_send_request(i) ==
    /\ g_req[i] = "new"
    /\ g_req' = [g_req EXCEPT ![i] = "ready"]
    /\ g_late' = (g_late \/ g_now > 0)
    /\ UNCHANGED <<g_now, g_queue, g_current, g_permit, g_rate, g_calls,
                   g_out, g_got, g_window>>

\* Buffer::poll_ready then Buffer::call (lines 48-51): the caller gets a
\* slot of the Buffer and its message joins the channel
buffer_call(i) ==
    /\ g_req[i] = "ready"
    /\ buffered < BufferBound
    /\ g_queue' = Append(g_queue, i)
    /\ g_req' = [g_req EXCEPT ![i] = "queued"]
    /\ UNCHANGED <<g_now, g_late, g_current, g_permit, g_rate, g_calls,
                   g_out, g_got, g_window>>

\* the Buffer's worker takes the next message of the channel
worker_next ==
    /\ g_current = None
    /\ g_queue # <<>>
    /\ g_current' = Some(Head(g_queue))
    /\ g_queue' = Tail(g_queue)
    /\ UNCHANGED <<g_now, g_req, g_late, g_permit, g_rate, g_calls, g_out,
                   g_got, g_window>>

\* ConcurrencyLimit::poll_ready: it is ready once it holds a permit
concurrency_ready == g_permit \/ free_permits > 0

\* RateLimit::poll_ready as it would be without the sleep
rate_ready_at_once(rate) == TRUE

\* RateLimit::poll_ready as it would be with a sleep that never wakes it
rate_ready_never_woken(rate) == ~rate.limited

\* RateLimit::poll_ready: ready in State::Ready, and in State::Limited
\* once the sleep until `until` is over
rate_ready(rate) == ~rate.limited \/ rate.left = 0

\* RateLimit::poll_ready's state when it is ready: leaving State::Limited
\* sets State::Ready {until: now + per, rem: num}
rate_poll(rate) ==
    IF rate.limited
    THEN [limited |-> FALSE, left |-> RatePer, rem |-> RateNum]
    ELSE rate

\* RateLimit::call as it would be without the count of the calls left
rate_call_uncounted(rate) ==
    IF rate.left = 0
    THEN [limited |-> FALSE, left |-> RatePer, rem |-> RateNum]
    ELSE rate

\* RateLimit::call in State::Ready {until, rem}: a period that is over is
\* reset; the last call of a period sets State::Limited until `until`
rate_call(rate) ==
    LET r == IF rate.left = 0
             THEN [limited |-> FALSE, left |-> RatePer, rem |-> RateNum]
             ELSE rate
    IN IF r.rem > 1
       THEN [r EXCEPT !.rem = r.rem - 1]
       ELSE [r EXCEPT !.limited = TRUE, !.rem = 0]

\* the worker polls the service with a message in hand and the service is
\* not ready: the ConcurrencyLimit keeps the permit it got, the RateLimit
\* sleeps
worker_pending ==
    /\ g_current # None
    /\ concurrency_ready
    /\ ~rate_ready(g_rate)
    /\ ~g_permit
    /\ g_permit' = TRUE
    /\ UNCHANGED <<g_now, g_req, g_late, g_queue, g_current, g_rate, g_calls,
                   g_out, g_got, g_window>>

\* the worker polls the service, it is ready, and the worker calls it:
\* ConcurrencyLimit::call, RateLimit::call, ReqwestService::call (line 41)
worker_dispatch ==
    /\ g_current # None
    /\ concurrency_ready
    /\ rate_ready(g_rate)
    /\ LET i == Unwrap(g_current)
       IN /\ g_rate' = rate_call(rate_poll(g_rate))
          /\ g_permit' = FALSE
          /\ g_current' = None
          /\ g_req' = [g_req EXCEPT ![i] = "inflight"]
          /\ g_calls' = [g_calls EXCEPT ![i] = g_calls[i] + 1]
          /\ g_window' = IF g_window.left = 0
                         THEN [left |-> RatePer, calls |-> 1]
                         ELSE [g_window EXCEPT !.calls = g_window.calls + 1]
    /\ UNCHANGED <<g_now, g_late, g_queue, g_out, g_got>>

\* the two outcomes of ReqwestService::call's future
GovOutcomes == {TransportError} \cup Responses({200}, {})

\* the future of ReqwestService::call completes: the permit of the
\* ConcurrencyLimit is dropped with it and send_request returns (line 52-53)
transport_done(i, o) ==
    /\ g_req[i] = "inflight"
    /\ g_out' = [g_out EXCEPT ![i] = Some(o)]
    /\ g_got' = [g_got EXCEPT ![i] = Some(map_err(o))]
    /\ g_req' = [g_req EXCEPT ![i] = "done"]
    /\ UNCHANGED <<g_now, g_late, g_queue, g_current, g_permit, g_rate,
                   g_calls, g_window>>

Dec(n) == IF n > 0 THEN n - 1 ELSE 0

\* one tick passes
Tick ==
    /\ g_now' = IF g_now < MaxTime THEN g_now + 1 ELSE g_now
    /\ g_rate' = [g_rate EXCEPT !.left = Dec(g_rate.left)]
    /\ g_window' = IF g_window.left <= 1
                   THEN [left |-> 0, calls |-> 0]
                   ELSE [g_window EXCEPT !.left = g_window.left - 1]
    /\ UNCHANGED <<g_req, g_late, g_queue, g_current, g_permit, g_calls,
                   g_out, g_got>>

\* ------------------------------------------------------------------ specifications

\* no run is under way
WfIdle ==
    /\ config = [session_id |-> FALSE, auto_add |-> None, auto_unlock |-> FALSE,
                 auto_forq |-> FALSE, auto_forget |-> FALSE,
                 add_mined_sentences |-> FALSE, add_custom_definition |-> FALSE,
                 auto_open |-> FALSE]
    /\ fields = [wid |-> 1, reading |-> Some(<<"neko">>), sentence |-> <<>>,
                 definition |-> None]
    /\ pc = "done"
    /\ phase = "idle"
    /\ requests = <<>>
    /\ calls = <<>>
    /\ responses = <<>>
    /\ detail_url = None
    /\ open_url = <<>>
    /\ vocab = None
    /\ ret = [step \in DepStepSet |-> "NotCalled"]
    /\ result = None
    /\ opened = <<>>
    /\ open_res = <<>>

\* ------------------------------------------------------- concurrent runs
\* NumRuns calls of add_note on clones of one JPDBConnection (#[derive(Clone)],
\* line 18): they share config and the BufferedService, and each has its own
\* locals.  The limiters' timing is the governor's part (above); here the
\* Buffer's channel and the ConcurrencyLimit's permits are kept, and the
\* RateLimit is any delay of the worker.

\* the Fields the r-th run is called with: the r-th card
RunFields(r) ==
    [wid |-> r, reading |-> Some(<<"neko">>),
     sentence |-> <<"U+732B", " ", "da">>,
     definition |-> Some(<<"cat", "/", "feline">>)]

\* the configurations of the shared connection: a credential, and any of
\* forq, the sentence edit and the definition edit
ConcConfigs ==
    {c \in Configs :
        /\ c.session_id
        /\ c.auto_add = None
        /\ ~c.auto_unlock
        /\ ~c.auto_forget
        /\ ~c.auto_open}

ConcIdle ==
    /\ runs = [r \in Runs |->
                 [fields |-> RunFields(r), pc |-> "done", waiting |-> FALSE,
                  requests |-> <<>>, detail_url |-> None, open_url |-> <<>>,
                  vocab |-> None, result |-> None]]
    /\ c_queue = <<>>
    /\ c_calls = {}

\* no request is sent apart from the run's
GovIdle ==
    /\ GovFresh
    /\ g_req = [i \in ReqIds |-> "done"]

Init == WfInit /\ GovIdle /\ ConcIdle

Next ==
    \/ add_note_search /\ UNCHANGED <<govvars, concvars>>
    \/ worker_call /\ UNCHANGED <<govvars, concvars>>
    \/ \E o \in Outcomes(GetStatuses, SearchPages(fields)) :
          add_note_search_done(o) /\ UNCHANGED <<govvars, concvars>>
    \/ add_note_detail /\ UNCHANGED <<govvars, concvars>>
    \/ \E o \in Outcomes(GetStatuses, DetailPages(fields)) :
          add_note_detail_done(o) /\ UNCHANGED <<govvars, concvars>>
    \/ \E step \in DepStepSet : step_skip(step) /\ UNCHANGED <<govvars, concvars>>
    \/ \E step \in DepStepSet : step_call(step) /\ UNCHANGED <<govvars, concvars>>
    \/ \E step \in DepStepSet, o \in Outcomes(PostStatuses, {}) :
          step_done(step, o) /\ UNCHANGED <<govvars, concvars>>
    \/ \E open_ok \in BOOLEAN : add_note_open(open_ok) /\ UNCHANGED <<govvars, concvars>>

\* one run of add_note
Spec == Init /\ [][Next]_vars

GovNext ==
    \/ \E i \in ReqIds : gov_send_request(i) /\ UNCHANGED <<wfvars, concvars>>
    \/ \E i \in ReqIds : buffer_call(i) /\ UNCHANGED <<wfvars, concvars>>
    \/ worker_next /\ UNCHANGED <<wfvars, concvars>>
    \/ worker_pending /\ UNCHANGED <<wfvars, concvars>>
    \/ worker_dispatch /\ UNCHANGED <<wfvars, concvars>>
    \/ \E i \in ReqIds, o \in GovOutcomes :
          transport_done(i, o) /\ UNCHANGED <<wfvars, concvars>>
    \/ Tick /\ UNCHANGED <<wfvars, concvars>>

\* a newly built service, its requests not yet sent, and no run
GovStart ==
    /\ WfIdle
    /\ GovInit
    /\ ConcIdle

\* NumReq requests through one governed service
GovSpec == GovStart /\ [][GovNext]_vars

\* ... on an executor that polls every woken task (the callers, the
\* Buffer's worker), with a clock that goes on and a transport that
\* completes every call it is given
GovFairness ==
    /\ \A i \in ReqIds : WF_vars(buffer_call(i) /\ UNCHANGED <<wfvars, concvars>>)
    /\ WF_vars(worker_next /\ UNCHANGED <<wfvars, concvars>>)
    /\ WF_vars(worker_pending /\ UNCHANGED <<wfvars, concvars>>)
    /\ WF_vars(worker_dispatch /\ UNCHANGED <<wfvars, concvars>>)
    /\ \A i \in ReqIds :
          WF_vars(\E o \in GovOutcomes :
                    transport_done(i, o) /\ UNCHANGED <<wfvars, concvars>>)
    /\ WF_vars(Tick /\ UNCHANGED <<wfvars, concvars>>)

GovFairSpec == GovStart /\ [][GovNext]_vars /\ GovFairness

\* the requests sent to an endpoint that never answers
NumHung == 1

Hung == 1..NumHung

\* the governed service with the calls of the requests in Hung never
\* completing: client.execute (line 41) has no timeout of its own
GovHungNext ==
    \/ \E i \in ReqIds : gov_send_request(i) /\ UNCHANGED <<wfvars, concvars>>
    \/ \E i \in ReqIds : buffer_call(i) /\ UNCHANGED <<wfvars, concvars>>
    \/ worker_next /\ UNCHANGED <<wfvars, concvars>>
    \/ worker_pending /\ UNCHANGED <<wfvars, concvars>>
    \/ worker_dispatch /\ UNCHANGED <<wfvars, concvars>>
    \/ \E i \in ReqIds \ Hung, o \in GovOutcomes :
          transport_done(i, o) /\ UNCHANGED <<wfvars, concvars>>
    \/ Tick /\ UNCHANGED <<wfvars, concvars>>

\* the executor polls every woken task, the clock goes on, and the
\* transport completes every call but those of the requests in Hung
GovHungFairness ==
    /\ \A i \in ReqIds : WF_vars(buffer_call(i) /\ UNCHANGED <<wfvars, concvars>>)
    /\ WF_vars(worker_next /\ UNCHANGED <<wfvars, concvars>>)
    /\ WF_vars(worker_pending /\ UNCHANGED <<wfvars, concvars>>)
    /\ WF_vars(worker_dispatch /\ UNCHANGED <<wfvars, concvars>>)
    /\ \A i \in ReqIds \ Hung :
          WF_vars(\E o \in GovOutcomes :
                    transport_done(i, o) /\ UNCHANGED <<wfvars, concvars>>)
    /\ WF_vars(Tick /\ UNCHANGED <<wfvars, concvars>>)

GovHungSpec == GovStart /\ [][GovHungNext]_vars /\ GovHungFairness

\* ------------------------------------------------------------------ claims

\* ------------------------------------------- concurrent runs: the actions

\* send_request up to its await (lines 48-51): the caller's message joins
\* the Buffer's channel
conc_submit(r, req) ==
    /\ Len(c_queue) < BufferBound
    /\ c_queue' = Append(c_queue, [run |-> r, req |-> req])
    /\ runs' = [runs EXCEPT ![r] = [@ EXCEPT !.waiting = TRUE,
                                             !.requests = Append(@, req)]]
    /\ UNCHANGED c_calls

\* `return Err(..)` and every `?` of add_note that is given an Err
conc_fail(run, e) == [run EXCEPT !.pc = "done", !.result = Some(Err(e))]

\* `step(..).await?` of lines 121-149
conc_try(run, step, r) ==
    IF r = "Ok" THEN [run EXCEPT !.pc = StepAfter(step)] ELSE conc_fail(run, r)

\* lines 92-95: the search request
run_search(r) ==
    /\ runs[r].pc = "search"
    /\ ~runs[r].waiting
    /\ conc_submit(r, GET(search_url(Word(runs[r].fields))))

\* line 112 with get_request: the detail page request
run_detail(r) ==
    /\ runs[r].pc = "detail"
    /\ ~runs[r].waiting
    /\ conc_submit(r, GET(abs_url(Unwrap(runs[r].detail_url))))

\* lines 119-151: a dependent step up to the await of form_request, or
\* passed over, or returning before it
run_step(r) ==
    LET run == runs[r]
        step == run.pc
    IN /\ step \in DepStepSet
       /\ ~run.waiting
       /\ IF ~StepEnabled(config, run.fields, step)
          THEN /\ runs' = [runs EXCEPT ![r] = [run EXCEPT !.pc = StepAfter(step)]]
               /\ UNCHANGED <<c_queue, c_calls>>
          ELSE IF StepEarlyOk(run.fields, step)
          THEN /\ runs' = [runs EXCEPT ![r] = conc_try(run, step, "Ok")]
               /\ UNCHANGED <<c_queue, c_calls>>
          ELSE IF ~IsSome(find_id(Unwrap(run.vocab)))
          THEN /\ runs' = [runs EXCEPT
                              ![r] = conc_try(run, step, "can't find vocab id")]
               /\ UNCHANGED <<c_queue, c_calls>>
          ELSE conc_submit(r, StepRequest(config, run.fields, step,
                                          Unwrap(find_id(Unwrap(run.vocab))),
                                          Unwrap(run.detail_url)))

\* lines 160-164 with auto_open off: the return
run_return(r) ==
    /\ runs[r].pc = "open"
    /\ ~config.auto_open
    /\ runs' = [runs EXCEPT ![r] = [@ EXCEPT !.pc = "done",
                                             !.result = Some(Ok(runs[r].open_url))]]
    /\ UNCHANGED <<c_queue, c_calls>>

\* the Buffer's worker: the next message of the channel is passed to the
\* service once the ConcurrencyLimit has a permit for it
conc_worker ==
    /\ c_queue # <<>>
    /\ Cardinality(c_calls) < ConcurrencyBound
    /\ c_calls' = c_calls \cup {Head(c_queue)}
    /\ c_queue' = Tail(c_queue)
    /\ UNCHANGED runs

\* the outcome of a call as it would be if it went to a caller that is
\* waiting, whichever sent the message
reply_to_waiting(e) == CHOOSE r \in Runs : runs[r].waiting

\* the caller that gets the outcome of a call: Buffer answers each message
\* through the message's own channel, so it is the caller that sent it
reply_to(e) == e.run

\* what the site can answer to a call, by what is asked for: the pages are
\* those of the card of the request
ConcOutcomes(e) ==
    LET f == runs[e.run].fields
    IN CASE runs[e.run].pc = "search" -> Outcomes({200}, SearchPages(f))
         [] runs[e.run].pc = "detail" -> Outcomes({200}, DetailPages(f))
         [] OTHER -> Outcomes({200, 404}, {})

\* add_note after an await of send_request (lines 95-118, and the steps'
\* code after form_request): what the run does with the outcome
conc_receive(run, o) ==
    CASE run.pc = "search" ->
            IF ~o.ok THEN conc_fail(run, "search request")
            ELSE IF o.text = None
            THEN conc_fail(run, "error decoding response body")
            ELSE LET d == find_detail_url(Unwrap(o.text), Word(run.fields),
                                          run.fields.reading)
                     found == [run EXCEPT
                                 !.detail_url = d,
                                 !.open_url = resolve_open_url(
                                                  d, search_url(Word(run.fields)))]
                 IN IF branch(config, d) = "Err"
                    THEN conc_fail(found, "can't find card")
                    ELSE [found EXCEPT !.pc = branch(config, d)]
      [] run.pc = "detail" ->
            IF ~o.ok THEN conc_fail(run, "get detail page")
            ELSE IF o.text = None
            THEN conc_fail(run, "error decoding response body")
            ELSE [run EXCEPT !.vocab = Some([body |-> Unwrap(o.text)]),
                             !.pc = "add_to_deck"]
      [] OTHER -> conc_try(run, run.pc, StepResult(run.pc, o))

\* the future of a call completes and the caller waiting for it goes on
conc_transport_done(e, o) ==
    /\ e \in c_calls
    /\ c_calls' = c_calls \ {e}
    /\ runs[reply_to(e)].waiting
    /\ runs' = [runs EXCEPT
                  ![reply_to(e)] = conc_receive([@ EXCEPT !.waiting = FALSE], o)]
    /\ UNCHANGED c_queue

ConcNext ==
    \/ \E r \in Runs : run_search(r) /\ UNCHANGED <<wfvars, govvars>>
    \/ \E r \in Runs : run_detail(r) /\ UNCHANGED <<wfvars, govvars>>
    \/ \E r \in Runs : run_step(r) /\ UNCHANGED <<wfvars, govvars>>
    \/ \E r \in Runs : run_return(r) /\ UNCHANGED <<wfvars, govvars>>
    \/ conc_worker /\ UNCHANGED <<wfvars, govvars>>
    \/ \E e \in c_calls : \E o \in ConcOutcomes(e) :
          conc_transport_done(e, o) /\ UNCHANGED <<wfvars, govvars>>

\* NumRuns calls of add_note about to start, on a connection with any of
\* the configurations of ConcConfigs
ConcInit ==
    /\ config \in ConcConfigs
    /\ fields = RunFields(1)
    /\ pc = "done"
    /\ phase = "idle"
    /\ requests = <<>>
    /\ calls = <<>>
    /\ responses = <<>>
    /\ detail_url = None
    /\ open_url = <<>>
    /\ vocab = None
    /\ ret = [step \in DepStepSet |-> "NotCalled"]
    /\ result = None
    /\ opened = <<>>
    /\ open_res = <<>>
    /\ GovIdle
    /\ runs = [r \in Runs |->
                 [fields |-> RunFields(r), pc |-> "search", waiting |-> FALSE,
                  requests |-> <<>>, detail_url |-> None, open_url |-> <<>>,
                  vocab |-> None, result |-> None]]
    /\ c_queue = <<>>
    /\ c_calls = {}

ConcSpec == ConcInit /\ [][ConcNext]_vars

IsFailure(r) == r \notin {"NotCalled", "Ok"}

StepsAfter(step) == {s \in DepStepSet : StepIndex(s) > StepIndex(step)}

\* the search page was fetched and read
SearchParsed ==
    /\ Len(responses) >= 1
    /\ responses[1].ok
    /\ responses[1].text # None

\* ... and find_detail_url found no detail URL on it
NoDetailFound ==
    /\ SearchParsed
    /\ ~IsSome(find_detail_url(Unwrap(responses[1].text), Word(fields),
                               fields.reading))

\* the steps that are called and get as far as find_id
StepsNeedingId ==
    {s \in DepStepSet : StepEnabled(config, fields, s) /\ ~StepEarlyOk(fields, s)}

NoVocabId == vocab # None /\ ~IsSome(find_vocab_id(Unwrap(vocab).body))

C3_SearchUrlReturned ==
    (pc = "done" /\ NoDetailFound /\ ~any_login_or_detail_options(config)) =>
        /\ result = Some(Ok(search_url(Word(fields))))
        /\ Len(requests) = 1

\* C3 as amended: ... the search request is the only request, and the run
\* returns the search URL unless open::that is configured and fails, which
\* add_note returns as its error.
C3_SearchUrlReturnedUnlessOpenFails ==
    (NoDetailFound /\ ~any_login_or_detail_options(config)) =>
        /\ requests = <<GET(search_url(Word(fields)))>>
        /\ pc \in {"open", "done"}
        /\ pc = "done" =>
              \/ result = Some(Ok(search_url(Word(fields))))
              \/ /\ config.auto_open
                 /\ opened = <<search_url(Word(fields))>>
                 /\ result = Some(Err("open::that"))
        /\ (pc = "done" /\ ~config.auto_open) =>
              result = Some(Ok(search_url(Word(fields))))

\* C3's case: a credential, no option, no detail URL, and the run has
\* returned the search URL.
C3_Witness ==
    /\ pc = "done"
    /\ NoDetailFound
    /\ config.session_id
    /\ ~any_login_or_detail_options(config)
    /\ result = Some(Ok(search_url(Word(fields))))

\* C4 as stated: no detail URL found and a detail-dependent option
\* enabled: the run fails with "can't find card".
C4_CantFindCard ==
    (pc = "done" /\ NoDetailFound /\ any_login_or_detail_options(config)) =>
        result = Some(Err("can't find card"))

\* C4 as amended: ... and a session credential configured: the run fails
\* with "can't find card", after the search request alone and without
\* open::that.
C4_CantFindCardWithSession ==
    (NoDetailFound /\ any_login_or_detail_options(config) /\ config.session_id) =>
        /\ pc = "done"
        /\ result = Some(Err("can't find card"))
        /\ Len(requests) = 1
        /\ opened = <<>>

\* C4's case: a credential, an option, no detail URL.
C4_Witness ==
    /\ NoDetailFound
    /\ config.session_id
    /\ config.auto_forq
    /\ config.auto_open
    /\ result = Some(Err("can't find card"))

CeilDiv(a, b) == (a + b - 1) \div b

AllDone == \A i \in ReqIds : g_req[i] = "done"

\* C6 as stated: N requests sent at once take at least ceil(N/R) windows
\* until all of them are started and completed.
C6_ElapsedAtLeastCeil ==
    (AllDone /\ ~g_late) => g_now >= CeilDiv(NumReq, RateNum) * RatePer

\* C6 as amended: N requests sent at once to a newly built governor take
\* at least (ceil(N/R) - 1) windows until all of them are started and
\* completed: the first R start at once.
C6_ElapsedAtLeastCeilMinusOne ==
    (AllDone /\ ~g_late) => g_now >= (CeilDiv(NumReq, RateNum) - 1) * RatePer

\* C6's case: all requests were sent at tick 0 and are completed when
\* exactly (ceil(N/R) - 1) windows have passed.
C6_Witness ==
    /\ AllDone
    /\ ~g_late
    /\ g_now = (CeilDiv(NumReq, RateNum) - 1) * RatePer

DetailFound ==
    /\ SearchParsed
    /\ IsSome(find_detail_url(Unwrap(responses[1].text), Word(fields),
                              fields.reading))

\* the detail URL found, relative as find_detail_url gives it
FoundRel ==
    Unwrap(find_detail_url(Unwrap(responses[1].text), Word(fields),
                           fields.reading))

\* the detail page was fetched and read
DetailFetched ==
    /\ Len(responses) >= 2
    /\ responses[2].ok
    /\ responses[2].text # None

\* every optional flag of the configuration is off
AllFlagsOff == ~any_login_or_detail_options(config) /\ ~config.auto_open

\* the two GET requests of a run with a credential and a detail URL
SearchAndDetail ==
    <<[method |-> "GET", url |-> UrlParse(search_url(Word(fields))), body |-> None],
      [method |-> "GET",
       url |-> UrlParse(<<"https://", "jpdb.io">> \o FoundRel), body |-> None]>>

\* C8 as stated: credential, detail URL found, all flags off: exactly two
\* requests, the search GET then the detail GET, and the result is the
\* absolute detail URL.
C8_TwoRequestsDetailUrl ==
    (pc = "done" /\ config.session_id /\ DetailFound /\ AllFlagsOff) =>
        /\ requests = SearchAndDetail
        /\ result = Some(Ok(<<"https://", "jpdb.io">> \o FoundRel))

\* C8 as amended: ... exactly two requests are issued, the search GET then
\* the detail GET, and no dependent-step request; the result is the
\* absolute detail URL when the detail page is fetched and read, and the
\* error of that fetch when it is not.
C8_TwoRequestsDetailUrlIfFetched ==
    (config.session_id /\ DetailFound /\ AllFlagsOff) =>
        /\ Len(requests) <= 2
        /\ \A step \in DepStepSet : ret[step] = "NotCalled"
        /\ opened = <<>>
        /\ pc = "done" =>
              /\ requests = SearchAndDetail
              /\ IF DetailFetched
                 THEN result = Some(Ok(<<"https://", "jpdb.io">> \o FoundRel))
                 ELSE result \in {Some(Err("get detail page")),
                                  Some(Err("error decoding response body"))}

\* C8's case: the run is over with the detail page fetched.
C8_Witness ==
    /\ pc = "done"
    /\ config.session_id
    /\ DetailFound
    /\ AllFlagsOff
    /\ DetailFetched
    /\ Len(requests) = 2

\* add-to-deck is the only option enabled
OnlyAddToDeck ==
    /\ IsSome(config.auto_add)
    /\ ~config.auto_unlock
    /\ ~config.auto_forq
    /\ ~config.auto_forget
    /\ ~config.add_mined_sentences
    /\ ~config.add_custom_definition

\* the detail page was fetched and find_vocab_id finds an id on it
HasVocabId == vocab # None /\ IsSome(find_vocab_id(Unwrap(vocab).body))

TheVocabId == Unwrap(find_vocab_id(Unwrap(vocab).body))

\* the form body v=..&r=..&s=..&origin=.. of the deck-add request
DeckAddBody ==
    <<"v", "=">> \o TheVocabId.v \o <<"&", "r", "=">> \o TheVocabId.r
        \o <<"&", "s", "=">> \o TheVocabId.s
        \o <<"&", "origin", "=">> \o FormEscape(FoundRel)

\* C9: credential, detail URL found, add-to-deck with deck D the only
\* option, an id {v, s, r} on the detail page: exactly three requests are
\* issued and the third is a form POST to /deck/D/add whose body is
\* v, r, s, origin in this order, with the id's values and the detail URL.
C9_ThirdRequestDeckAdd ==
    (config.session_id /\ DetailFound /\ OnlyAddToDeck /\ HasVocabId) =>
        /\ Len(requests) <= 3
        /\ (pc # "add_to_deck" \/ phase # "idle") =>
              /\ Len(requests) = 3
              /\ requests[1] = SearchAndDetail[1]
              /\ requests[2] = SearchAndDetail[2]
              /\ requests[3].method = "POST"
              /\ requests[3].url =
                    <<"https://", "jpdb.io", "/", "deck", "/">>
                        \o ToDec(Unwrap(config.auto_add)) \o <<"/", "add">>
              /\ requests[3].body = Some(DeckAddBody)
              /\ (fields.wid = 1 /\ config.auto_add = Some(5)) =>
                    /\ requests[3].url =
                          <<"https://", "jpdb.io", "/", "deck", "/", "5", "/", "add">>
                    /\ requests[3].body =
                          Some(<<"v", "=", "1", "&", "r", "=", "3", "&", "s", "=", "2",
                                 "&", "origin", "=", "%2F", "vocabulary", "%2F", "1",
                                 "%2F", "%E7%8C%AB">>)

\* C9's case: the run is over, with deck 5 and the id {1, 2, 3}.
C9_Witness ==
    /\ pc = "done"
    /\ config.session_id
    /\ DetailFound
    /\ OnlyAddToDeck
    /\ HasVocabId
    /\ config.auto_add = Some(5)
    /\ TheVocabId = [v |-> <<"1">>, s |-> <<"2">>, r |-> <<"3">>]
    /\ Len(requests) = 3
    /\ ret["add_to_deck"] = "Ok"

\* the requests of the sentence-edit and of the definition-edit step
IsSentenceEdit(req) ==
    req.method = "POST" /\ Len(req.url) >= 4 /\ req.url[4] = "edit-shown-sentence"

IsDefinitionEdit(req) ==
    req.method = "POST" /\ Len(req.url) >= 4 /\ req.url[4] = "edit_shown_meanings"

\* the run has reached the steps and gone past one
Past(step) ==
    /\ vocab # None
    /\ \/ pc = "open"
       \/ pc \in StepsAfter(step)
       \/ pc = "done" /\ result # None /\ Unwrap(result).ok
       \/ pc = "done" /\ \E s \in StepsAfter(step) : ret[s] # "NotCalled"

\* C10: with an empty sentence, set-custom-sentence sends no request and
\* returns Ok when it is called; so does set-custom-definition with an
\* empty definition, and with no definition it is not called at all;
\* whether or not the detail page carries an id.
C10_EmptyTextSkipped ==
    /\ fields.sentence = <<>> =>
          /\ \A k \in DOMAIN requests : ~IsSentenceEdit(requests[k])
          /\ ret["set_custom_sentence"] \in {"NotCalled", "Ok"}
          /\ (config.add_mined_sentences /\ Past("set_custom_sentence")) =>
                ret["set_custom_sentence"] = "Ok"
    /\ fields.definition \in {None, Some(<<>>)} =>
          /\ \A k \in DOMAIN requests : ~IsDefinitionEdit(requests[k])
          /\ ret["set_custom_definition"] \in {"NotCalled", "Ok"}
          /\ (config.add_custom_definition /\ fields.definition = Some(<<>>)
                /\ Past("set_custom_definition")) =>
                ret["set_custom_definition"] = "Ok"
          /\ fields.definition = None => ret["set_custom_definition"] = "NotCalled"

\* C10's case: both steps are enabled with empty texts, the detail page
\* has no id, and the run has returned Ok.
C10_Witness ==
    /\ pc = "done"
    /\ NoVocabId
    /\ config.add_mined_sentences
    /\ config.add_custom_definition
    /\ fields.sentence = <<>>
    /\ fields.definition = Some(<<>>)
    /\ ret["set_custom_sentence"] = "Ok"
    /\ ret["set_custom_definition"] = "Ok"
    /\ result = Some(Ok(open_url))
    /\ Len(requests) = 2

\* the step a request belongs to, by the path of its URL
StepOfRequest(req) ==
    CASE req.method = "GET" /\ req.url[1] # "https://" -> "search"
      [] req.method = "GET" /\ req.url[1] = "https://" -> "detail"
      [] req.method = "POST" /\ req.url[4] = "deck" -> "add_to_deck"
      [] req.method = "POST" /\ req.url[4] = "force-unlock" -> "force_unlock"
      [] req.method = "POST" /\ req.url[4] = "prioritize" -> "forq"
      [] req.method = "POST" /\ req.url[4] = "mark-as-not-known" -> "mark_unknown"
      [] req.method = "POST" /\ req.url[4] = "edit-shown-sentence" ->
            "set_custom_sentence"
      [] req.method = "POST" /\ req.url[4] = "edit_shown_meanings" ->
            "set_custom_definition"

\* C11: each of the six dependent steps succeeds exactly when the status of
\* its response is 2xx or 3xx; any other status is that step's failure.
C11_SuccessIs2xxOr3xx ==
    \A k \in DOMAIN responses :
        (requests[k].method = "POST" /\ responses[k].ok) =>
            (ret[StepOfRequest(requests[k])] = "Ok"
                <=> (200 <= responses[k].status /\ responses[k].status <= 399))

\* the place of a step in the order of the workflow
Rank(step) ==
    CASE step = "search" -> 1
      [] step = "detail" -> 2
      [] step = "add_to_deck" -> 3
      [] step = "force_unlock" -> 4
      [] step = "forq" -> 5
      [] step = "mark_unknown" -> 6
      [] step = "set_custom_sentence" -> 7
      [] step = "set_custom_definition" -> 8

\* C12: within one run the requests are issued one at a time and in the order
\* search, detail, add-to-deck, force-unlock, forq, mark-unknown,
\* set-custom-sentence, set-custom-definition, and open comes last: a request
\* is submitted only when every earlier request has been answered, and none
\* is submitted once open has been invoked.
C12_SequentialFixedOrder ==
    /\ [](/\ Len(responses) <= Len(calls)
          /\ Len(calls) <= Len(requests)
          /\ Len(requests) <= Len(responses) + 1
          /\ \A k \in 1..(Len(requests) - 1) :
                Rank(StepOfRequest(requests[k]))
                    < Rank(StepOfRequest(requests[k + 1])))
    /\ [][requests' # requests =>
            /\ Len(responses) = Len(requests)
            /\ opened = <<>> /\ opened' = <<>>]_vars

\* all eight requests were made and open was invoked
C12_Witness ==
    /\ Len(requests) = 8
    /\ Len(responses) = 8
    /\ opened # <<>>

\* the URL add_note resolves from the search page (lines 102-107)
ResolvedUrl ==
    IF DetailFound THEN <<"https://", "jpdb.io">> \o FoundRel
    ELSE search_url(Word(fields))

\* C13 as stated: with no session credential, whatever the flags and whether
\* or not a detail URL was found, the search request is the only request,
\* the run goes directly to the open step and returns the URL resolved from
\* the search page.
C13_NoCredentialReturnsUrl ==
    (~config.session_id /\ SearchParsed) =>
        /\ requests = <<GET(search_url(Word(fields)))>>
        /\ \A step \in DepStepSet : ret[step] = "NotCalled"
        /\ pc \in {"open", "done"}
        /\ pc = "done" => result = Some(Ok(ResolvedUrl))

\* C13 as amended: ... the search request is the only request, the run goes
\* directly to the open step and returns the URL resolved from the search
\* page unless open::that is configured and fails, which add_note returns as
\* its error.
C13_NoCredentialReturnsUrlUnlessOpenFails ==
    (~config.session_id /\ SearchParsed) =>
        /\ requests = <<GET(search_url(Word(fields)))>>
        /\ \A step \in DepStepSet : ret[step] = "NotCalled"
        /\ pc \in {"open", "done"}
        /\ pc = "done" =>
              \/ result = Some(Ok(ResolvedUrl))
              \/ /\ config.auto_open
                 /\ opened = <<ResolvedUrl>>
                 /\ result = Some(Err("open::that"))
        /\ (pc = "done" /\ ~config.auto_open) =>
              /\ opened = <<>>
              /\ result = Some(Ok(ResolvedUrl))

\* C13's case: no credential, options enabled, a detail URL found, and the
\* run has returned the absolute detail URL after the search request alone.
C13_Witness ==
    /\ pc = "done"
    /\ ~config.session_id
    /\ any_login_or_detail_options(config)
    /\ DetailFound
    /\ Len(requests) = 1
    /\ result = Some(Ok(<<"https://", "jpdb.io">> \o FoundRel))

\* the detail page request was answered
DetailAnswered == Len(requests) >= 2 /\ Len(responses) >= 2

\* C14 as stated: the detail fetch is fatal on failure: when it ends in a
\* transport error or a non-success status the run aborts, no dependent-step
\* request is issued and open is not invoked.
C14_DetailFailureFatal ==
    (DetailAnswered
        /\ (~responses[2].ok \/ ~is_success(responses[2].status))) =>
        /\ pc = "done"
        /\ result # None /\ ~Unwrap(result).ok
        /\ Len(requests) = 2
        /\ opened = <<>>

\* C14 as amended: the detail fetch is fatal when it ends in a transport
\* error or its body cannot be read: the run aborts with that error, no
\* dependent-step request is issued and open is not invoked.  The status of
\* the response is not looked at: a page answered with a non-success status
\* is parsed as any other and the run goes on with it.
C14_DetailTransportFailureFatal ==
    /\ (DetailAnswered /\ ~DetailFetched) =>
          /\ pc = "done"
          /\ result = Some(Err(IF responses[2].ok
                               THEN "error decoding response body"
                               ELSE "get detail page"))
          /\ Len(requests) = 2
          /\ vocab = None
          /\ \A step \in DepStepSet : ret[step] = "NotCalled"
          /\ opened = <<>>
    /\ (DetailAnswered /\ DetailFetched) =>
          /\ vocab = Some([body |-> Unwrap(responses[2].text)])
          /\ result \notin {Some(Err("get detail page")),
                            Some(Err("error decoding response body"))}

\* C14's case: the detail request ended in a transport error and the run
\* is over.
C14_Witness ==
    /\ DetailAnswered
    /\ ~responses[2].ok
    /\ any_login_or_detail_options(config)
    /\ config.auto_open
    /\ pc = "done"

\* C15: when the search request ends in a transport failure the run returns
\* that error, issues no further request and does not invoke open.
C15_SearchFailureFatal ==
    (Len(responses) >= 1 /\ ~responses[1].ok) =>
        /\ pc = "done"
        /\ result = Some(Err("search request"))
        /\ Len(requests) = 1
        /\ Len(responses) = 1
        /\ vocab = None
        /\ \A step \in DepStepSet : ret[step] = "NotCalled"
        /\ opened = <<>>

\* C15's case: the search request ended in a transport error, with a
\* credential, options and open::that configured.
C15_Witness ==
    /\ Len(responses) = 1
    /\ ~responses[1].ok
    /\ config.session_id
    /\ any_login_or_detail_options(config)
    /\ config.auto_open
    /\ pc = "done"

\* C16: open::that is invoked at most once in a run, only when auto_open is
\* configured, and always with the URL resolved from the search page; when
\* it fails the run fails, with its error.
C16_OpenOnceWithResolvedUrl ==
    /\ Len(opened) <= 1
    /\ Len(open_res) = Len(opened)
    /\ opened # <<>> =>
          /\ config.auto_open
          /\ SearchParsed
          /\ opened = <<ResolvedUrl>>
          /\ pc = "done"
    /\ open_res = <<"Err">> => result = Some(Err("open::that"))
    /\ open_res = <<"Ok">> => result = Some(Ok(ResolvedUrl))
    /\ (pc = "done" /\ Unwrap(result).ok) =>
          (config.auto_open <=> opened # <<>>)

\* C16's case: open::that was invoked with the detail URL, after dependent
\* steps, and failed.
C16_Witness ==
    /\ open_res = <<"Err">>
    /\ DetailFound
    /\ opened = <<<<"https://", "jpdb.io">> \o FoundRel>>
    /\ Len(requests) >= 3

\* C17: nothing is retried: a workflow step submits at most one request,
\* whatever its outcome, and each submitted request is passed on to the
\* transport at most once.
C17_NoRetries ==
    /\ \A j, k \in DOMAIN requests :
          j < k => StepOfRequest(requests[j]) # StepOfRequest(requests[k])
    /\ Len(calls) <= Len(requests)
    /\ calls = SubSeq(requests, 1, Len(calls))
    /\ \A k \in DOMAIN responses :
          (\/ ~responses[k].ok
           \/ /\ requests[k].method = "POST"
              /\ responses[k].status \notin 200..399) =>
              Len(requests) = k

\* C17's case: a dependent step's request was answered with a transport
\* error and the run is over.
C17_Witness ==
    /\ Len(responses) >= 3
    /\ ~responses[Len(responses)].ok
    /\ Len(calls) = Len(responses)
    /\ pc = "done"

\* C20: a dependent-step POST has been issued only if, earlier in the same
\* run, a credential was present, the detail GET was answered with a page
\* and a vocab id was found on it; no dependent request is sent with an
\* identifier missing.
C20_PostOnlyWithIdentifier ==
    \A k \in DOMAIN requests :
        requests[k].method = "POST" =>
            /\ config.session_id
            /\ k >= 3
            /\ requests[2].method = "GET"
            /\ DetailFound
            /\ DetailFetched
            /\ HasVocabId
            /\ TheVocabId.v # <<>> /\ TheVocabId.s # <<>> /\ TheVocabId.r # <<>>
            /\ requests[k] = StepRequest(config, fields, StepOfRequest(requests[k]),
                                         TheVocabId, FoundRel)

\* C20's case: dependent-step POSTs were issued, the last of them the
\* definition edit.
C20_Witness ==
    /\ Len(requests) >= 4
    /\ requests[Len(requests)].method = "POST"
    /\ StepOfRequest(requests[Len(requests)]) = "set_custom_definition"

\* C19: with several callers on one governor, an endpoint that never
\* answers stalls only the callers waiting on it: while fewer than
\* ConcurrencyBound requests hang, every other request that enters
\* send_request is still dispatched, once, and completed.
C19_HungStallsOnlyItsCaller ==
    NumHung < ConcurrencyBound =>
        /\ \A i \in ReqIds \ Hung : (g_req[i] = "ready") ~> (g_req[i] = "done")
        /\ [](\A i \in ReqIds \ Hung : g_req[i] = "done" => g_calls[i] = 1)
        /\ [](\A i \in Hung : g_req[i] # "done" /\ g_got[i] = None)

\* C19's case: the hung requests hold their permits, their calls made, and
\* every other request is completed.
C19_Witness ==
    /\ \A i \in Hung : g_req[i] = "inflight" /\ g_calls[i] = 1
    /\ \A i \in ReqIds \ Hung : g_req[i] = "done" /\ g_got[i] # None
    /\ NumHung < ConcurrencyBound

\* the requests of run r that are dependent-step POSTs
RunPosts(r) ==
    {k \in DOMAIN runs[r].requests : runs[r].requests[k].method = "POST"}

\* the step request of run r's k-th request as it is with the id and the
\* detail URL of the card of run q
RequestWithCardOf(r, k, q) ==
    StepRequest(config, runs[r].fields, StepOfRequest(runs[r].requests[k]),
                VocabIdOf(runs[q].fields.wid), DetailRelOf(runs[q].fields.wid))

\* C18: in every run all dependent-step requests carry one identifier
\* triple, the one found on the detail page fetched in that run, and that
\* run's detail URL as origin; with runs going on at once over the shared
\* service no request of a run carries the triple or the origin of another
\* run's card, and a step of one run changes no other run's locals.
C18_RunsCarryOwnTriple ==
    /\ [](\A r \in Runs : \A k \in RunPosts(r) :
            /\ runs[r].vocab # None
            /\ find_vocab_id(Unwrap(runs[r].vocab).body)
                  = Some(VocabIdOf(runs[r].fields.wid))
            /\ runs[r].detail_url = Some(DetailRelOf(runs[r].fields.wid))
            /\ runs[r].requests[k] = RequestWithCardOf(r, k, r)
            /\ \A q \in Runs \ {r} :
                  runs[r].requests[k] # RequestWithCardOf(r, k, q))
    /\ [][\A r \in Runs :
            runs'[r] # runs[r] =>
                /\ \A q \in Runs \ {r} : runs'[q] = runs[q]
                /\ config' = config]_vars

\* C18's case: dependent-step POSTs of two runs are in flight at once.
C18_Witness ==
    \E e1, e2 \in c_calls :
        /\ e1.run # e2.run
        /\ e1.req.method = "POST"
        /\ e2.req.method = "POST"
        /\ Len(runs[e1.run].requests) >= 4

====
